---- MODULE Spec2Model ----
(***************************************************************************)
(* shortscale-rs: conversion of a u64 into English short-scale words.      *)
(*                                                                         *)
(* The model runs one formatting call, statement by statement, on a call   *)
(* stack of frames.  Three implementations are stepped:                    *)
(*   "shortscale"  shortscale() of src/src/shortscale.rs (String builder), *)
(*   "display"     write!(buf, "{}", NumWords::new(n)) of src/src/extra.rs *)
(*                 into a String that already holds a prefix,              *)
(*   "lib"         shortscale() of src/src/lib.rs (word lists, own table). *)
(* The other builder variants are pure functions and are modelled as       *)
(* operators.                                                              *)
(*                                                                         *)
(* A String is a sequence of one-character strings.  A u64 is a sequence   *)
(* of seven base-1000 limbs, least significant first (TLC integers are 32  *)
(* bits wide; 1000^7 > 2^64).  A program counter is the source line of the *)
(* statement about to run; 0 is the end of a function body.                *)
(***************************************************************************)
EXTENDS Integers, Sequences, FiniteSets, TLC

VARIABLES impl, num, prefix, s, len, stack, status

vars == <<impl, num, prefix, s, len, stack, status>>

(***************************************************************************)
(* u64 arithmetic on limbs                                                 *)
(***************************************************************************)
Limbs == 1..7

\* The u64 written with its base-1000 groups, most significant first.
U(e, q, t, b, m, k, u) == <<u, k, m, b, t, q, e>>

\* A literal below 1000.
Lit(v) == U(0, 0, 0, 0, 0, 0, v)

\* The literal 1000^k (1_000, 1_000_000, ...).
Pow1000(k) == [i \in Limbs |-> IF i = k + 1 THEN 1 ELSE 0]

\* u64::MAX = 18_446_744_073_709_551_615
U64_MAX == U(18, 446, 744, 73, 709, 551, 615)

RECURSIVE LtFrom(_, _, _)
LtFrom(a, b, i) ==
    IF i = 0 THEN FALSE
    ELSE IF a[i] # b[i] THEN a[i] < b[i]
    ELSE LtFrom(a, b, i - 1)

Lt(a, b) == LtFrom(a, b, 7)
Le(a, b) == ~Lt(b, a)
Gt(a, b) == Lt(b, a)

IsU64(n) == n \in [Limbs -> 0..999] /\ Le(n, U64_MAX)

\* n / d for a literal d that divides 1000 (10, 100): each limb takes the
\* low digits of the limb above it.
DivSmall(n, d) ==
    [i \in Limbs |->
        (n[i] \div d) + (IF i < 7 THEN (n[i + 1] % d) * (1000 \div d) ELSE 0)]

\* Mutant: the remainder is not taken.
ModSmall_none(n, m) == n

\* n % m for a literal m that divides 1000 (10, 100, 1_000).
ModSmall(n, m) == Lit(n[1] % m)

\* n * m for a small literal m, with carry between limbs.
RECURSIVE MulCarry(_, _, _, _)
MulCarry(n, m, i, c) ==
    IF i > 7 THEN <<>>
    ELSE LET p == n[i] * m + c
         IN  <<p % 1000>> \o MulCarry(n, m, i + 1, p \div 1000)

MulSmall(n, m) == MulCarry(n, m, 1, 0)

\* n / t for t a power of 1000: the limbs shift down.
ScaleExp(t) == CHOOSE k \in 0..6 : t = Pow1000(k)
DivScale(n, t) ==
    LET k == ScaleExp(t)
    IN  [i \in Limbs |-> IF i + k <= 7 THEN n[i + k] ELSE 0]

\* A Rust division panics when the divisor is zero.
DivPanics(t) == t = Lit(0)

(***************************************************************************)
(* Strings                                                                 *)
(***************************************************************************)
\* Mutant: words joined by a hyphen.
SPACE_HYPHEN == <<"-">>

\* Mutant: words joined by two spaces.
SPACE_DOUBLE == <<" ", " ">>

SPACE == <<" ">>
AND == <<"a","n","d">>

\* str.len(): every character of the model is one ASCII byte.
StrLen(str) == Len(str)

\* String::push_str
push_str(str, t) == str \o t

(***************************************************************************)
(* shortscale.rs: the word table                                           *)
(***************************************************************************)
map(n) ==
    CASE n = Lit(0) -> <<"z","e","r","o">>
      [] n = Lit(1) -> <<"o","n","e">>
      [] n = Lit(2) -> <<"t","w","o">>
      [] n = Lit(3) -> <<"t","h","r","e","e">>
      [] n = Lit(4) -> <<"f","o","u","r">>
      [] n = Lit(5) -> <<"f","i","v","e">>
      [] n = Lit(6) -> <<"s","i","x">>
      [] n = Lit(7) -> <<"s","e","v","e","n">>
      [] n = Lit(8) -> <<"e","i","g","h","t">>
      [] n = Lit(9) -> <<"n","i","n","e">>
      [] n = Lit(10) -> <<"t","e","n">>
      [] n = Lit(11) -> <<"e","l","e","v","e","n">>
      [] n = Lit(12) -> <<"t","w","e","l","v","e">>
      [] n = Lit(13) -> <<"t","h","i","r","t","e","e","n">>
      [] n = Lit(14) -> <<"f","o","u","r","t","e","e","n">>
      [] n = Lit(15) -> <<"f","i","f","t","e","e","n">>
      [] n = Lit(16) -> <<"s","i","x","t","e","e","n">>
      [] n = Lit(17) -> <<"s","e","v","e","n","t","e","e","n">>
      [] n = Lit(18) -> <<"e","i","g","h","t","e","e","n">>
      [] n = Lit(19) -> <<"n","i","n","e","t","e","e","n">>
      [] n = Lit(20) -> <<"t","w","e","n","t","y">>
      [] n = Lit(30) -> <<"t","h","i","r","t","y">>
      [] n = Lit(40) -> <<"f","o","u","r","t","y">>
      [] n = Lit(50) -> <<"f","i","f","t","y">>
      [] n = Lit(60) -> <<"s","i","x","t","y">>
      [] n = Lit(70) -> <<"s","e","v","e","n","t","y">>
      [] n = Lit(80) -> <<"e","i","g","h","t","y">>
      [] n = Lit(90) -> <<"n","i","n","e","t","y">>
      [] n = Lit(100) -> <<"h","u","n","d","r","e","d">>
      [] n = Pow1000(1) -> <<"t","h","o","u","s","a","n","d">>
      [] n = Pow1000(2) -> <<"m","i","l","l","i","o","n">>
      [] n = Pow1000(3) -> <<"b","i","l","l","i","o","n">>
      [] n = Pow1000(4) -> <<"t","r","i","l","l","i","o","n">>
      [] n = Pow1000(5) -> <<"q","u","a","d","r","i","l","l","i","o","n">>
      [] OTHER -> <<"(","b","i","g"," ","n","u","m","b","e","r",")">>

(***************************************************************************)
(* The call stack                                                          *)
(***************************************************************************)
Top == stack[Len(stack)]

Running(fn, pc) ==
    /\ status = "run"
    /\ stack # <<>>
    /\ Top.fn = fn
    /\ Top.pc = pc

\* The statement at the top frame is done: go on at line pc.
Goto(pc) == stack' = [stack EXCEPT ![Len(stack)].pc = pc]

\* `let num = ...` shadows the frame's num; go on at line pc.
LetNum(v, pc) == stack' = [stack EXCEPT ![Len(stack)] = [@ EXCEPT !.num = v, !.pc = pc]]

\* The statement at the top frame calls a function; the caller goes on at
\* line retpc when it returns.
Call(frame, retpc) ==
    stack' = Append([stack EXCEPT ![Len(stack)].pc = retpc], frame)

\* Leave the top frame; the outermost return ends the formatting call.
Pop ==
    /\ stack' = SubSeq(stack, 1, Len(stack) - 1)
    /\ status' = IF Len(stack) = 1 THEN "done" ELSE status

\* The end of a function body.
Return ==
    /\ status = "run"
    /\ stack # <<>>
    /\ Top.pc = 0
    /\ Pop
    /\ UNCHANGED <<impl, num, prefix, s, len>>

(***************************************************************************)
(* shortscale.rs: shortscale() and its helpers                             *)
(***************************************************************************)
MAX_SUPPORTED == U(0, 999, 999, 999, 999, 999, 999)

\* Mutants of line 51: the test for small numbers, or for large ones, is
\* left out.
is_simple_lookup_large_only(n) == Gt(n, MAX_SUPPORTED)
is_simple_lookup_small_only(n) == Le(n, Lit(20))

\* Mutant of line 51: every number is answered by one table lookup.
is_simple_lookup_always(n) == TRUE

\* line 51: the numbers answered by one table lookup
is_simple_lookup(n) == Le(n, Lit(20)) \/ Gt(n, MAX_SUPPORTED)

\* Mutant of lines 57-61: the last call is given a scale of zero.
scale_arg_zero(line) == IF line = 61 THEN Lit(0) ELSE Pow1000(62 - line)

\* Mutant of lines 57-61: the scales in ascending order.
scale_arg_ascending(line) == Pow1000(line - 56)

\* lines 57-61: the scale each call of push_scale is given
scale_arg(line) == Pow1000(62 - line)

\* Mutant of line 107: the reduction % 1_000 is left out.
group_value_no_mod(n, thousands) == DivScale(n, thousands)

\* line 107: num / thousands % 1_000
group_value(n, thousands) == ModSmall(DivScale(n, thousands), 1000)

\* Mutant of line 98: the reduction % 10 is left out.
hundreds_digit_no_mod(n) == DivSmall(n, 100)

\* lines 98, 112: num / 100 % 10
hundreds_digit(n) == ModSmall(DivSmall(n, 100), 10)

\* Mutant of line 112: "and" in every non-zero group, as at the top level.
scale_and_word_nonzero(n) == Gt(n, Lit(0))

\* line 112: the "and" of a scale group follows its hundreds word only
scale_and_word(n) == Gt(hundreds_digit(n), Lit(0))

\* Mutant of line 63: "and" before the final tens/units whatever precedes.
top_and_word_always(str) == TRUE

\* Mutant of line 63: no "and" before the final tens/units.
top_and_word_never(str) == FALSE

\* line 63: at the top level anything written so far calls for "and"
top_and_word(str) == StrLen(str) > 0

\* Mutant of line 70: the separator is pushed before every word.
needs_space_always(str) == TRUE

\* line 70: a word is separated from what the buffer holds
needs_space(str) == StrLen(str) > 0

\* lines 51-55
shortscale_lookup ==
    /\ Running("shortscale", 51)
    /\ IF is_simple_lookup(Top.num)
       THEN /\ s' = map(Top.num)
            /\ Pop
       ELSE /\ s' = <<>>
            /\ Goto(57)
            /\ UNCHANGED status
    /\ UNCHANGED <<impl, num, prefix, len>>

\* lines 57-61
shortscale_scales ==
    /\ \E line \in 57..61 :
         /\ Running("shortscale", line)
         /\ Call([fn |-> "push_scale", pc |-> 107, num |-> Top.num,
                  thousands |-> scale_arg(line)], line + 1)
    /\ UNCHANGED <<impl, num, prefix, s, len, status>>

\* line 62
shortscale_hundreds ==
    /\ Running("shortscale", 62)
    /\ Call([fn |-> "push_hundreds", pc |-> 98, num |-> Top.num], 63)
    /\ UNCHANGED <<impl, num, prefix, s, len, status>>

\* lines 63-64
shortscale_tens_and_units ==
    /\ Running("shortscale", 63)
    /\ Call([fn |-> "push_tens_and_units", pc |-> 77, num |-> Top.num,
             and_word |-> top_and_word(s)], 66)
    /\ UNCHANGED <<impl, num, prefix, s, len, status>>

\* line 66
shortscale_return ==
    /\ Running("shortscale", 66)
    /\ Goto(0)
    /\ UNCHANGED <<impl, num, prefix, s, len, status>>

\* lines 70-72
push_word_space ==
    /\ Running("push_word", 70)
    /\ s' = IF needs_space(s) THEN push_str(s, SPACE) ELSE s
    /\ Goto(73)
    /\ UNCHANGED <<impl, num, prefix, len, status>>

\* line 73
push_word_word ==
    /\ Running("push_word", 73)
    /\ s' = push_str(s, Top.word)
    /\ Goto(0)
    /\ UNCHANGED <<impl, num, prefix, len, status>>

\* lines 77-80
push_tens_and_units_rem ==
    /\ Running("push_tens_and_units", 77)
    /\ LET n == ModSmall(Top.num, 100)
       IN  IF n = Lit(0) THEN LetNum(n, 0) ELSE LetNum(n, 81)
    /\ UNCHANGED <<impl, num, prefix, s, len, status>>

\* lines 81-83
push_tens_and_units_and ==
    /\ Running("push_tens_and_units", 81)
    /\ IF Top.and_word
       THEN Call([fn |-> "push_word", pc |-> 70, word |-> AND], 84)
       ELSE Goto(84)
    /\ UNCHANGED <<impl, num, prefix, s, len, status>>

\* lines 84-87
push_tens_and_units_match ==
    /\ Running("push_tens_and_units", 84)
    /\ IF Le(Lit(1), Top.num) /\ Le(Top.num, Lit(20))
       THEN Call([fn |-> "push_word", pc |-> 70, word |-> map(Top.num)], 0)
       ELSE Call([fn |-> "push_word", pc |-> 70,
                  word |-> map(MulSmall(DivSmall(Top.num, 10), 10))], 88)
    /\ UNCHANGED <<impl, num, prefix, s, len, status>>

\* lines 88-92
push_tens_and_units_units ==
    /\ Running("push_tens_and_units", 88)
    /\ LET n == ModSmall(Top.num, 10)
       IN  IF n = Lit(0)
           THEN Goto(0)
           ELSE Call([fn |-> "push_word", pc |-> 70, word |-> map(n)], 0)
    /\ UNCHANGED <<impl, num, prefix, s, len, status>>

\* lines 98-101
push_hundreds_digit ==
    /\ Running("push_hundreds", 98)
    /\ LET n == hundreds_digit(Top.num)
       IN  IF n = Lit(0) THEN LetNum(n, 0) ELSE LetNum(n, 102)
    /\ UNCHANGED <<impl, num, prefix, s, len, status>>

\* line 102
push_hundreds_word ==
    /\ Running("push_hundreds", 102)
    /\ Call([fn |-> "push_word", pc |-> 70, word |-> map(Top.num)], 103)
    /\ UNCHANGED <<impl, num, prefix, s, len, status>>

\* line 103
push_hundreds_hundred ==
    /\ Running("push_hundreds", 103)
    /\ Call([fn |-> "push_word", pc |-> 70, word |-> map(Lit(100))], 0)
    /\ UNCHANGED <<impl, num, prefix, s, len, status>>

\* lines 107-110
push_scale_group ==
    /\ Running("push_scale", 107)
    /\ IF DivPanics(Top.thousands)
       THEN /\ status' = "panic"
            /\ UNCHANGED stack
       ELSE /\ LET n == group_value(Top.num, Top.thousands)
               IN  IF n = Lit(0) THEN LetNum(n, 0) ELSE LetNum(n, 111)
            /\ UNCHANGED status
    /\ UNCHANGED <<impl, num, prefix, s, len>>

\* line 111
push_scale_hundreds ==
    /\ Running("push_scale", 111)
    /\ Call([fn |-> "push_hundreds", pc |-> 98, num |-> Top.num], 112)
    /\ UNCHANGED <<impl, num, prefix, s, len, status>>

\* lines 112-113
push_scale_tens_and_units ==
    /\ Running("push_scale", 112)
    /\ Call([fn |-> "push_tens_and_units", pc |-> 77, num |-> Top.num,
             and_word |-> scale_and_word(Top.num)], 114)
    /\ UNCHANGED <<impl, num, prefix, s, len, status>>

\* line 114
push_scale_word ==
    /\ Running("push_scale", 114)
    /\ Call([fn |-> "push_word", pc |-> 70, word |-> map(Top.thousands)], 0)
    /\ UNCHANGED <<impl, num, prefix, s, len, status>>

(***************************************************************************)
(* extra.rs: NumWords, written through a Formatter into the String s.      *)
(* Formatter::write_str into a String appends and returns Ok, so the `?`   *)
(* after each call never returns early.  self.n is num.                    *)
(***************************************************************************)
\* line 29, `use crate::map`: the word table of the crate root.  The tests of
\* extra.rs expect the sentinel "(big number)" (tests/test-shortscale.rs,
\* line 60), which is the table of shortscale.rs.
crate_map(n) == map(n)

\* Mutant of line 101: "and" whatever the counter says.
NumWords_display_and_word_always(l) == TRUE

\* line 101: len > 0
NumWords_display_and_word(l) == l > 0

\* Mutant of line 150: the separator is written before every word.
NumWords_write_needs_space_always(l) == TRUE

\* line 150: *len > 0
NumWords_write_needs_space(l) == l > 0

\* line 143
NumWords_scale_and_word(n) == Gt(ModSmall(DivSmall(n, 100), 10), Lit(0))

\* lines 90-94
NumWords_display_lookup ==
    /\ Running("display", 90)
    /\ IF Le(num, Lit(20)) \/ Gt(num, MAX_SUPPORTED)
       THEN /\ s' = push_str(s, crate_map(num))
            /\ Goto(0)
            /\ UNCHANGED len
       ELSE /\ len' = 0
            /\ Goto(95)
            /\ UNCHANGED s
    /\ UNCHANGED <<impl, num, prefix, status>>

\* lines 95-99
NumWords_display_scales ==
    /\ \E line \in 95..99 :
         /\ Running("display", line)
         /\ Call([fn |-> "scale", pc |-> 138,
                  thousands |-> Pow1000(100 - line)], line + 1)
    /\ UNCHANGED <<impl, num, prefix, s, len, status>>

\* line 100
NumWords_display_hundreds ==
    /\ Running("display", 100)
    /\ Call([fn |-> "hundreds", pc |-> 128, num |-> num], 101)
    /\ UNCHANGED <<impl, num, prefix, s, len, status>>

\* line 101
NumWords_display_tens_and_units ==
    /\ Running("display", 101)
    /\ Call([fn |-> "tens_and_units", pc |-> 106, num |-> num,
             and_word |-> NumWords_display_and_word(len)], 102)
    /\ UNCHANGED <<impl, num, prefix, s, len, status>>

\* line 102
NumWords_display_ok ==
    /\ Running("display", 102)
    /\ Goto(0)
    /\ UNCHANGED <<impl, num, prefix, s, len, status>>

\* lines 106-109
NumWords_tens_and_units_rem ==
    /\ Running("tens_and_units", 106)
    /\ LET n == ModSmall(Top.num, 100)
       IN  IF n = Lit(0) THEN LetNum(n, 0) ELSE LetNum(n, 110)
    /\ UNCHANGED <<impl, num, prefix, s, len, status>>

\* lines 110-112
NumWords_tens_and_units_and ==
    /\ Running("tens_and_units", 110)
    /\ IF Top.and_word
       THEN Call([fn |-> "write_word", pc |-> 150, word |-> AND], 113)
       ELSE Goto(113)
    /\ UNCHANGED <<impl, num, prefix, s, len, status>>

\* lines 113-116
NumWords_tens_and_units_match ==
    /\ Running("tens_and_units", 113)
    /\ IF Le(Lit(1), Top.num) /\ Le(Top.num, Lit(20))
       THEN Call([fn |-> "write_word", pc |-> 150, word |-> crate_map(Top.num)], 124)
       ELSE Call([fn |-> "write_word", pc |-> 150,
                  word |-> crate_map(MulSmall(DivSmall(Top.num, 10), 10))], 117)
    /\ UNCHANGED <<impl, num, prefix, s, len, status>>

\* lines 117-121
NumWords_tens_and_units_units ==
    /\ Running("tens_and_units", 117)
    /\ LET n == ModSmall(Top.num, 10)
       IN  IF n = Lit(0)
           THEN Goto(124)
           ELSE Call([fn |-> "write_word", pc |-> 150, word |-> crate_map(n)], 124)
    /\ UNCHANGED <<impl, num, prefix, s, len, status>>

\* line 124
NumWords_tens_and_units_ok ==
    /\ Running("tens_and_units", 124)
    /\ Goto(0)
    /\ UNCHANGED <<impl, num, prefix, s, len, status>>

\* lines 128-131
NumWords_hundreds_digit ==
    /\ Running("hundreds", 128)
    /\ LET n == ModSmall(DivSmall(Top.num, 100), 10)
       IN  IF n = Lit(0) THEN LetNum(n, 0) ELSE LetNum(n, 132)
    /\ UNCHANGED <<impl, num, prefix, s, len, status>>

\* line 132
NumWords_hundreds_word ==
    /\ Running("hundreds", 132)
    /\ Call([fn |-> "write_word", pc |-> 150, word |-> crate_map(Top.num)], 133)
    /\ UNCHANGED <<impl, num, prefix, s, len, status>>

\* lines 133-134
NumWords_hundreds_hundred ==
    /\ Running("hundreds", 133)
    /\ Call([fn |-> "write_word", pc |-> 150, word |-> crate_map(Lit(100))], 0)
    /\ UNCHANGED <<impl, num, prefix, s, len, status>>

\* lines 138-141
NumWords_scale_group ==
    /\ Running("scale", 138)
    /\ IF DivPanics(Top.thousands)
       THEN /\ status' = "panic"
            /\ UNCHANGED stack
       ELSE /\ LET n == ModSmall(DivScale(num, Top.thousands), 1000)
               IN  IF n = Lit(0)
                   THEN stack' = [stack EXCEPT ![Len(stack)] =
                                    [fn |-> "scale", pc |-> 0, num |-> n,
                                     thousands |-> Top.thousands]]
                   ELSE stack' = [stack EXCEPT ![Len(stack)] =
                                    [fn |-> "scale", pc |-> 142, num |-> n,
                                     thousands |-> Top.thousands]]
            /\ UNCHANGED status
    /\ UNCHANGED <<impl, num, prefix, s, len>>

\* line 142
NumWords_scale_hundreds ==
    /\ Running("scale", 142)
    /\ Call([fn |-> "hundreds", pc |-> 128, num |-> Top.num], 143)
    /\ UNCHANGED <<impl, num, prefix, s, len, status>>

\* lines 143-144
NumWords_scale_tens_and_units ==
    /\ Running("scale", 143)
    /\ Call([fn |-> "tens_and_units", pc |-> 106, num |-> Top.num,
             and_word |-> NumWords_scale_and_word(Top.num)], 145)
    /\ UNCHANGED <<impl, num, prefix, s, len, status>>

\* lines 145-146
NumWords_scale_word ==
    /\ Running("scale", 145)
    /\ Call([fn |-> "write_word", pc |-> 150, word |-> crate_map(Top.thousands)], 0)
    /\ UNCHANGED <<impl, num, prefix, s, len, status>>

\* lines 150-153
NumWords_write_word_space ==
    /\ Running("write_word", 150)
    /\ IF NumWords_write_needs_space(len)
       THEN /\ s' = push_str(s, SPACE)
            /\ len' = len + StrLen(SPACE)
       ELSE UNCHANGED <<s, len>>
    /\ Goto(154)
    /\ UNCHANGED <<impl, num, prefix, status>>

\* lines 154-156
NumWords_write_word_word ==
    /\ Running("write_word", 154)
    /\ s' = push_str(s, Top.word)
    /\ len' = len + StrLen(Top.word)
    /\ Goto(0)
    /\ UNCHANGED <<impl, num, prefix, status>>

(***************************************************************************)
(* shortscale.rs: shortscale() as a function of its argument (the value    *)
(* the stepped call returns)                                               *)
(***************************************************************************)
\* lines 69-74
push_word(str, word) ==
    LET s1 == IF StrLen(str) > 0 THEN push_str(str, SPACE) ELSE str
    IN  push_str(s1, word)

\* lines 76-95
push_tens_and_units(str, n0, and_word) ==
    LET n == ModSmall(n0, 100)
    IN  IF n = Lit(0) THEN str
        ELSE LET s1 == IF and_word THEN push_word(str, AND) ELSE str
             IN  IF Le(Lit(1), n) /\ Le(n, Lit(20))
                 THEN push_word(s1, map(n))
                 ELSE LET s2 == push_word(s1, map(MulSmall(DivSmall(n, 10), 10)))
                          u == ModSmall(n, 10)
                      IN  IF u = Lit(0) THEN s2 ELSE push_word(s2, map(u))

\* lines 97-104
push_hundreds(str, n0) ==
    LET n == ModSmall(DivSmall(n0, 100), 10)
    IN  IF n = Lit(0) THEN str
        ELSE push_word(push_word(str, map(n)), map(Lit(100)))

\* lines 106-115
push_scale(str, n0, thousands) ==
    LET n == ModSmall(DivScale(n0, thousands), 1000)
    IN  IF n = Lit(0) THEN str
        ELSE LET s1 == push_hundreds(str, n)
                 and_word == Gt(ModSmall(DivSmall(n, 100), 10), Lit(0))
                 s2 == push_tens_and_units(s1, n, and_word)
             IN  push_word(s2, map(thousands))

\* lines 49-67
shortscale(n) ==
    IF Le(n, Lit(20)) \/ Gt(n, MAX_SUPPORTED)
    THEN map(n)
    ELSE LET s0 == <<>>
             s1 == push_scale(s0, n, Pow1000(5))
             s2 == push_scale(s1, n, Pow1000(4))
             s3 == push_scale(s2, n, Pow1000(3))
             s4 == push_scale(s3, n, Pow1000(2))
             s5 == push_scale(s4, n, Pow1000(1))
             s6 == push_hundreds(s5, n)
             and_word == StrLen(s6) > 0
         IN  push_tens_and_units(s6, n, and_word)

(***************************************************************************)
(* shortscale.rs: shortscale_vec_push                                      *)
(***************************************************************************)
\* [&str]::join(sep)
RECURSIVE join(_, _)
join(v, sep) ==
    IF v = <<>> THEN <<>>
    ELSE IF Len(v) = 1 THEN v[1]
    ELSE v[1] \o sep \o join(Tail(v), sep)

\* lines 185-204
vec_push_tens_and_units(v, n0, and_word) ==
    LET n == ModSmall(n0, 100)
    IN  IF n = Lit(0) THEN v
        ELSE LET v1 == IF and_word THEN Append(v, AND) ELSE v
             IN  IF Le(Lit(1), n) /\ Le(n, Lit(20))
                 THEN Append(v1, map(n))
                 ELSE LET v2 == Append(v1, map(MulSmall(DivSmall(n, 10), 10)))
                          u == ModSmall(n, 10)
                      IN  IF u = Lit(0) THEN v2 ELSE Append(v2, map(u))

\* lines 206-213
vec_push_hundreds(v, n0) ==
    LET n == ModSmall(DivSmall(n0, 100), 10)
    IN  IF n = Lit(0) THEN v
        ELSE Append(Append(v, map(n)), map(Lit(100)))

\* lines 215-224
vec_push_scale(v, n0, thousands) ==
    LET n == ModSmall(DivScale(n0, thousands), 1000)
    IN  IF n = Lit(0) THEN v
        ELSE LET v1 == vec_push_hundreds(v, n)
                 and_word == Gt(ModSmall(DivSmall(n, 100), 10), Lit(0))
                 v2 == vec_push_tens_and_units(v1, n, and_word)
             IN  Append(v2, map(thousands))

\* lines 171-180: the word list before it is joined
vec_push_words(n) ==
    LET v1 == vec_push_scale(<<>>, n, Pow1000(5))
        v2 == vec_push_scale(v1, n, Pow1000(4))
        v3 == vec_push_scale(v2, n, Pow1000(3))
        v4 == vec_push_scale(v3, n, Pow1000(2))
        v5 == vec_push_scale(v4, n, Pow1000(1))
        v6 == vec_push_hundreds(v5, n)
        and_word == Len(v6) > 0
    IN  vec_push_tens_and_units(v6, n, and_word)

\* lines 165-183
shortscale_vec_push(n) ==
    IF Le(n, Lit(20)) \/ Gt(n, MAX_SUPPORTED)
    THEN map(n)
    ELSE join(vec_push_words(n), SPACE)

(***************************************************************************)
(* shortscale.rs: shortscale_vec_concat                                    *)
(***************************************************************************)
\* lines 257-262
lookup(n) == IF n = Lit(0) THEN <<>> ELSE <<map(n)>>

\* lines 264-270
tens_and_units(n0) ==
    LET n == ModSmall(n0, 100)
    IN  IF Le(n, Lit(20)) THEN lookup(n)
        ELSE lookup(MulSmall(DivSmall(n, 10), 10)) \o lookup(ModSmall(n, 10))

\* lines 272-278
hundreds(n0) ==
    LET n == ModSmall(DivSmall(n0, 100), 10)
    IN  IF n = Lit(0) THEN <<>> ELSE lookup(n) \o lookup(Lit(100))

\* Mutant of lines 293-299: "and" joins the lists whatever their lengths.
concat_and_always(v1, v2) == v1 \o <<AND>> \o v2

\* lines 293-299
concat_and(v1, v2) ==
    IF Len(v2) = 0 THEN v1
    ELSE IF Len(v1) = 0 THEN v2
    ELSE v1 \o <<AND>> \o v2

\* lines 288-290
one_to_999(n) == concat_and(hundreds(n), tens_and_units(n))

\* lines 280-286
scale(n0, thousands) ==
    LET n == ModSmall(DivScale(n0, thousands), 1000)
    IN  IF n = Lit(0) THEN <<>> ELSE one_to_999(n) \o lookup(thousands)

\* lines 232-254
shortscale_vec_concat(n) ==
    IF Le(n, Lit(20)) \/ Gt(n, MAX_SUPPORTED)
    THEN map(n)
    ELSE LET vec == scale(n, Pow1000(5)) \o scale(n, Pow1000(4))
                    \o scale(n, Pow1000(3)) \o scale(n, Pow1000(2))
                    \o scale(n, Pow1000(1)) \o hundreds(n)
         IN  join(concat_and(vec, tens_and_units(n)), SPACE)

(***************************************************************************)
(* shortscale.rs: shortscale_string_join                                   *)
(***************************************************************************)
\* lines 325-334
join_words(str, sep, words) ==
    IF StrLen(words) = 0 THEN str
    ELSE IF StrLen(str) = 0 THEN push_str(str, words)
    ELSE push_str(push_str(str, sep), words)

\* lines 337-342
lookup_word(n) == IF n = Lit(0) THEN <<>> ELSE map(n)

\* Mutant of lines 344-354: the arm (10, _) for ten to nineteen is missing.
tens_and_units_words_no_teens(n0) ==
    LET n == ModSmall(n0, 100)
        tens == MulSmall(DivSmall(n, 10), 10)
        units == ModSmall(n, 10)
    IN  IF tens = Lit(0) THEN lookup_word(units)
        ELSE IF units = Lit(0) THEN lookup_word(tens)
        ELSE lookup_word(tens) \o SPACE \o lookup_word(units)

\* lines 344-354
tens_and_units_words(n0) ==
    LET n == ModSmall(n0, 100)
        tens == MulSmall(DivSmall(n, 10), 10)
        units == ModSmall(n, 10)
    IN  IF tens = Lit(0) THEN lookup_word(units)
        ELSE IF tens = Lit(10) THEN lookup_word(n)
        ELSE IF units = Lit(0) THEN lookup_word(tens)
        ELSE lookup_word(tens) \o SPACE \o lookup_word(units)

\* lines 356-362
hundreds_words(n0) ==
    LET n == ModSmall(DivSmall(n0, 100), 10)
    IN  IF n = Lit(0) THEN lookup_word(n)
        ELSE lookup_word(n) \o SPACE \o lookup_word(Lit(100))

\* lines 377-385
one_to_999_words(n) ==
    LET h == hundreds_words(n)
        tu == tens_and_units_words(n)
    IN  IF StrLen(h) = 0 THEN tu
        ELSE IF StrLen(tu) = 0 THEN h
        ELSE h \o <<" ">> \o AND \o <<" ">> \o tu

\* lines 364-375
scale_words(n0, thousands) ==
    LET n == ModSmall(DivScale(n0, thousands), 1000)
    IN  IF n = Lit(0) THEN lookup_word(n)
        ELSE one_to_999_words(n) \o SPACE \o lookup_word(thousands)

\* lines 306-323
shortscale_string_join(n) ==
    IF Le(n, Lit(20)) \/ Gt(n, MAX_SUPPORTED)
    THEN map(n)
    ELSE LET s1 == join_words(<<>>, SPACE, scale_words(n, Pow1000(5)))
             s2 == join_words(s1, SPACE, scale_words(n, Pow1000(4)))
             s3 == join_words(s2, SPACE, scale_words(n, Pow1000(3)))
             s4 == join_words(s3, SPACE, scale_words(n, Pow1000(2)))
             s5 == join_words(s4, SPACE, scale_words(n, Pow1000(1)))
             s6 == join_words(s5, SPACE, hundreds_words(n))
         IN  join_words(s6, <<" ">> \o AND \o <<" ">>, tens_and_units_words(n))

(***************************************************************************)
(* extra.rs: shortscale_str_push and shortscale_display                    *)
(***************************************************************************)
\* lines 191-196
extra_push_word(str, word) ==
    LET s1 == IF StrLen(str) > 0 THEN push_str(str, SPACE) ELSE str
    IN  push_str(s1, word)

\* lines 198-217
extra_push_tens_and_units(str, n0, and_word) ==
    LET n == ModSmall(n0, 100)
    IN  IF n = Lit(0) THEN str
        ELSE LET s1 == IF and_word THEN extra_push_word(str, AND) ELSE str
             IN  IF Le(Lit(1), n) /\ Le(n, Lit(20))
                 THEN extra_push_word(s1, crate_map(n))
                 ELSE LET s2 == extra_push_word(s1, crate_map(MulSmall(DivSmall(n, 10), 10)))
                          u == ModSmall(n, 10)
                      IN  IF u = Lit(0) THEN s2 ELSE extra_push_word(s2, crate_map(u))

\* lines 219-226
extra_push_hundreds(str, n0) ==
    LET n == ModSmall(DivSmall(n0, 100), 10)
    IN  IF n = Lit(0) THEN str
        ELSE extra_push_word(extra_push_word(str, crate_map(n)), crate_map(Lit(100)))

\* lines 228-237
extra_push_scale(str, n0, thousands) ==
    LET n == ModSmall(DivScale(n0, thousands), 1000)
    IN  IF n = Lit(0) THEN str
        ELSE LET s1 == extra_push_hundreds(str, n)
                 and_word == Gt(ModSmall(DivSmall(n, 100), 10), Lit(0))
                 s2 == extra_push_tens_and_units(s1, n, and_word)
             IN  extra_push_word(s2, crate_map(thousands))

\* lines 171-189
shortscale_str_push(n) ==
    IF Le(n, Lit(20)) \/ Gt(n, MAX_SUPPORTED)
    THEN crate_map(n)
    ELSE LET s1 == extra_push_scale(<<>>, n, Pow1000(5))
             s2 == extra_push_scale(s1, n, Pow1000(4))
             s3 == extra_push_scale(s2, n, Pow1000(3))
             s4 == extra_push_scale(s3, n, Pow1000(2))
             s5 == extra_push_scale(s4, n, Pow1000(1))
             s6 == extra_push_hundreds(s5, n)
             and_word == StrLen(s6) > 0
         IN  extra_push_tens_and_units(s6, n, and_word)

(***************************************************************************)
(* lib.rs: the crate root's own shortscale(), stepped as impl "lib".  Its  *)
(* helpers return word lists; a callee hands its list to the caller's vec. *)
(***************************************************************************)
\* lib.rs lines 85-123
lib_map(n) ==
    CASE n = Lit(0) -> <<"z","e","r","o">>
      [] n = Lit(1) -> <<"o","n","e">>
      [] n = Lit(2) -> <<"t","w","o">>
      [] n = Lit(3) -> <<"t","h","r","e","e">>
      [] n = Lit(4) -> <<"f","o","u","r">>
      [] n = Lit(5) -> <<"f","i","v","e">>
      [] n = Lit(6) -> <<"s","i","x">>
      [] n = Lit(7) -> <<"s","e","v","e","n">>
      [] n = Lit(8) -> <<"e","i","g","h","t">>
      [] n = Lit(9) -> <<"n","i","n","e">>
      [] n = Lit(10) -> <<"t","e","n">>
      [] n = Lit(11) -> <<"e","l","e","v","e","n">>
      [] n = Lit(12) -> <<"t","w","e","l","v","e">>
      [] n = Lit(13) -> <<"t","h","i","r","t","e","e","n">>
      [] n = Lit(14) -> <<"f","o","u","r","t","e","e","n">>
      [] n = Lit(15) -> <<"f","i","f","t","e","e","n">>
      [] n = Lit(16) -> <<"s","i","x","t","e","e","n">>
      [] n = Lit(17) -> <<"s","e","v","e","n","t","e","e","n">>
      [] n = Lit(18) -> <<"e","i","g","h","t","e","e","n">>
      [] n = Lit(19) -> <<"n","i","n","e","t","e","e","n">>
      [] n = Lit(20) -> <<"t","w","e","n","t","y">>
      [] n = Lit(30) -> <<"t","h","i","r","t","y">>
      [] n = Lit(40) -> <<"f","o","u","r","t","y">>
      [] n = Lit(50) -> <<"f","i","f","t","y">>
      [] n = Lit(60) -> <<"s","i","x","t","y">>
      [] n = Lit(70) -> <<"s","e","v","e","n","t","y">>
      [] n = Lit(80) -> <<"e","i","g","h","t","t","y">>
      [] n = Lit(90) -> <<"n","i","n","e","t","y">>
      [] n = Lit(100) -> <<"h","u","n","d","r","e","d">>
      [] n = Pow1000(1) -> <<"t","h","o","u","s","a","n","d">>
      [] n = Pow1000(2) -> <<"m","i","l","l","i","o","n">>
      [] n = Pow1000(3) -> <<"b","i","l","l","i","o","n">>
      [] n = Pow1000(4) -> <<"t","r","i","l","l","i","o","n">>
      [] n = Pow1000(5) -> <<"q","u","a","d","r","i","l","l","i","o","n">>
      [] OTHER -> <<"b","i","g"," ","n","u","m","b","e","r">>

\* lib.rs lines 41-46
lib_lookup(n) == IF n = Lit(0) THEN <<>> ELSE <<lib_map(n)>>

\* lib.rs lines 48-54
lib_tens_and_units(n0) ==
    LET n == ModSmall(n0, 100)
    IN  IF Le(n, Lit(20)) THEN lib_lookup(n)
        ELSE lib_lookup(MulSmall(DivSmall(n, 10), 10)) \o lib_lookup(ModSmall(n, 10))

\* lib.rs line 57: num % 1000 / 100
lib_hundreds_digit(n) == DivSmall(ModSmall(n, 1000), 100)

\* lib.rs lines 56-62
lib_hundreds(n0) ==
    LET n == lib_hundreds_digit(n0)
    IN  IF n = Lit(0) THEN <<>> ELSE lib_lookup(n) \o lib_lookup(Lit(100))

\* lib.rs lines 77-83
lib_concat_and(v1, v2) ==
    IF Len(v2) = 0 THEN v1
    ELSE IF Len(v1) = 0 THEN v2
    ELSE v1 \o <<AND>> \o v2

\* lib.rs lines 72-74
lib_one_to_999(n) == lib_concat_and(lib_hundreds(n), lib_tens_and_units(n))

\* The carry a u64 multiplication by a small literal leaves above limb 7.
RECURSIVE MulCarryOut(_, _, _, _)
MulCarryOut(n, m, i, c) ==
    IF i > 7 THEN c
    ELSE MulCarryOut(n, m, i + 1, (n[i] * m + c) \div 1000)

\* n * m does not fit a u64.
MulOverflows(n, m) ==
    MulCarryOut(n, m, 1, 0) # 0 \/ Gt(MulSmall(n, m), U64_MAX)

\* n % t for t a power of 1000: the limbs below t's exponent remain.
ModScale(n, t) ==
    LET k == ScaleExp(t)
    IN  [i \in Limbs |-> IF i <= k THEN n[i] ELSE 0]

\* Mutant of lib.rs line 23: a first scale of 1_000_000_000_000_000_000.
lib_scale_arg_quintillion(line) == Pow1000(29 - line)

\* lib.rs lines 23-27: the scale each call of jillions is given
lib_scale_arg(line) == Pow1000(28 - line)

\* lib.rs line 65: num % (scale * 1000) / scale
lib_group_value(n, jscale) == DivScale(ModScale(n, MulSmall(jscale, 1000)), jscale)

\* lib.rs lines 17-19
lib_shortscale_lookup ==
    /\ Running("lib_shortscale", 17)
    /\ IF Le(Top.num, Lit(20)) \/ Gt(Top.num, MAX_SUPPORTED)
       THEN /\ s' = lib_map(Top.num)
            /\ Pop
       ELSE /\ Goto(23)
            /\ UNCHANGED <<s, status>>
    /\ UNCHANGED <<impl, num, prefix, len>>

\* lib.rs lines 23-27
lib_shortscale_jillions ==
    /\ \E line \in 23..27 :
         /\ Running("lib_shortscale", line)
         /\ Call([fn |-> "jillions", pc |-> 65, num |-> Top.num,
                  scale |-> lib_scale_arg(line)], line + 1)
    /\ UNCHANGED <<impl, num, prefix, s, len, status>>

\* lib.rs line 65.  scale * 1000 that does not fit a u64 panics in a build
\* with overflow checks and wraps in one without; a division or remainder
\* by zero panics.
lib_jillions_group ==
    /\ Running("jillions", 65)
    /\ IF MulOverflows(Top["scale"], 1000)
       THEN /\ status' \in {"panic", "wrapped"}
            /\ UNCHANGED stack
       ELSE IF DivPanics(MulSmall(Top["scale"], 1000)) \/ DivPanics(Top["scale"])
       THEN /\ status' = "panic"
            /\ UNCHANGED stack
       ELSE /\ LetNum(lib_group_value(Top.num, Top["scale"]), 66)
            /\ UNCHANGED status
    /\ UNCHANGED <<impl, num, prefix, s, len>>

\* lib.rs lines 66-69: the list goes to the caller's array
lib_jillions_match ==
    /\ Running("jillions", 66)
    /\ LET r == IF Top.num = Lit(0) THEN <<>>
                ELSE lib_one_to_999(Top.num) \o lib_lookup(Top["scale"])
           caller == Len(stack) - 1
       IN  stack' = [SubSeq(stack, 1, caller) EXCEPT ![caller].vec = @ \o r]
    /\ UNCHANGED <<impl, num, prefix, s, len, status>>

\* lib.rs lines 28-30
lib_shortscale_hundreds ==
    /\ Running("lib_shortscale", 28)
    /\ stack' = [stack EXCEPT ![Len(stack)] =
                    [@ EXCEPT !.vec = @ \o lib_hundreds(Top.num), !.pc = 33]]
    /\ UNCHANGED <<impl, num, prefix, s, len, status>>

\* lib.rs line 33
lib_shortscale_concat_and ==
    /\ Running("lib_shortscale", 33)
    /\ stack' = [stack EXCEPT ![Len(stack)] =
                    [@ EXCEPT !.vec = lib_concat_and(@, lib_tens_and_units(Top.num)),
                              !.pc = 35]]
    /\ UNCHANGED <<impl, num, prefix, s, len, status>>

\* lib.rs line 35
lib_shortscale_join ==
    /\ Running("lib_shortscale", 35)
    /\ s' = join(Top.vec, SPACE)
    /\ Pop
    /\ UNCHANGED <<impl, num, prefix, len>>

(***************************************************************************)
(* Inputs                                                                  *)
(***************************************************************************)
\* Every number from 0 to MaxSmall is formatted.
MaxSmall == 1200

\* Every combination of at most MaxPopulated non-zero groups, each drawn
\* from GroupSample, is formatted.
MaxPopulated == 2

GroupSample == {1, 21, 40, 100, 120, 999}

FromNat(v) == U(0, 0, 0, 0, (v \div 1000000) % 1000, (v \div 1000) % 1000, v % 1000)

SmallNumbers == {FromNat(v) : v \in 0..MaxSmall}

Sparse ==
    UNION {{[i \in Limbs |-> IF i \in P THEN g[i] ELSE 0] : g \in [P -> GroupSample]} :
           P \in {Q \in SUBSET (1..6) : Cardinality(Q) <= MaxPopulated}}

\* tests/test-shortscale.rs, TESTS
TEST_NUMBERS ==
    {Lit(0), Lit(1), Lit(10), Lit(11), Lit(18), Lit(20), Lit(22), Lit(30),
     Lit(33), Lit(111), Lit(120), Lit(121), Lit(300), Lit(999),
     U(0,0,0,0,0,1,0), U(0,0,0,0,0,2,0), U(0,0,0,0,0,2,4), U(0,0,0,0,0,2,11),
     U(0,0,0,0,0,2,20), U(0,0,0,0,0,2,50), U(0,0,0,0,0,2,300),
     U(0,0,0,0,0,2,301), U(0,0,0,0,0,30,20), U(0,0,0,0,0,430,20),
     U(0,0,0,0,0,430,920), U(0,0,0,0,0,999,1), U(0,0,0,0,0,999,120),
     U(0,0,0,0,1,0,0), U(0,0,0,0,1,1,0), U(0,0,0,0,1,2,0), U(0,0,0,0,1,2,4),
     U(0,0,0,0,1,2,11), U(0,0,0,0,1,2,20), U(0,0,0,0,1,2,50),
     U(0,0,0,0,1,2,300), U(0,0,0,0,1,2,301), U(0,0,0,0,1,30,20),
     U(0,0,0,0,1,430,20), U(0,0,0,0,1,430,920), U(0,0,0,0,1,999,1),
     U(0,0,0,0,100,999,120), U(0,0,0,0,999,999,120),
     U(0,0,0,420,0,999,15), U(0,9,7,199,254,740,999),
     U(0,999,999,999,999,999,999), U(0,777,777,777,777,777,777),
     U(1,999,999,999,999,999,999)}

\* Numbers above 999_999_999_999_999_999, up to u64::MAX.
TooBig ==
    {n \in {[lo EXCEPT ![7] = e] : lo \in SmallNumbers \cup TEST_NUMBERS, e \in {1, 18}} :
        IsU64(n) /\ (n[1] <= 21 \/ n \in {[t EXCEPT ![7] = 1] : t \in TEST_NUMBERS})}
    \cup {U64_MAX}

Inputs == SmallNumbers \cup Sparse \cup TEST_NUMBERS \cup TooBig

\* "Hello " of the tests, and the empty String of shortscale_display.
HELLO == <<"H","e","l","l","o"," ">>
Prefixes == {<<>>, HELLO}

(***************************************************************************)
(* The specification                                                       *)
(***************************************************************************)
Init ==
    /\ impl \in {"shortscale", "display", "lib"}
    /\ num \in Inputs
    /\ prefix \in (IF impl = "display" THEN Prefixes ELSE {<<>>})
    /\ s = prefix
    /\ len = 0
    /\ stack = <<CASE impl = "shortscale" ->
                        [fn |-> "shortscale", pc |-> 51, num |-> num]
                    [] impl = "display" -> [fn |-> "display", pc |-> 90]
                    [] impl = "lib" ->
                        [fn |-> "lib_shortscale", pc |-> 17, num |-> num,
                         vec |-> <<>>]>>
    /\ status = "run"

Next ==
    \/ shortscale_lookup
    \/ shortscale_scales
    \/ shortscale_hundreds
    \/ shortscale_tens_and_units
    \/ shortscale_return
    \/ push_word_space
    \/ push_word_word
    \/ push_tens_and_units_rem
    \/ push_tens_and_units_and
    \/ push_tens_and_units_match
    \/ push_tens_and_units_units
    \/ push_hundreds_digit
    \/ push_hundreds_word
    \/ push_hundreds_hundred
    \/ push_scale_group
    \/ push_scale_hundreds
    \/ push_scale_tens_and_units
    \/ push_scale_word
    \/ NumWords_display_lookup
    \/ NumWords_display_scales
    \/ NumWords_display_hundreds
    \/ NumWords_display_tens_and_units
    \/ NumWords_display_ok
    \/ NumWords_tens_and_units_rem
    \/ NumWords_tens_and_units_and
    \/ NumWords_tens_and_units_match
    \/ NumWords_tens_and_units_units
    \/ NumWords_tens_and_units_ok
    \/ NumWords_hundreds_digit
    \/ NumWords_hundreds_word
    \/ NumWords_hundreds_hundred
    \/ NumWords_scale_group
    \/ NumWords_scale_hundreds
    \/ NumWords_scale_tens_and_units
    \/ NumWords_scale_word
    \/ NumWords_write_word_space
    \/ NumWords_write_word_word
    \/ lib_shortscale_lookup
    \/ lib_shortscale_jillions
    \/ lib_jillions_group
    \/ lib_jillions_match
    \/ lib_shortscale_hundreds
    \/ lib_shortscale_concat_and
    \/ lib_shortscale_join
    \/ Return

Spec == Init /\ [][Next]_vars

\* The formatting call is scheduled until it returns.
FairSpec == Spec /\ WF_vars(Next)

(***************************************************************************)
(* Properties                                                              *)
(***************************************************************************)
LOWER ==
    {"a","b","c","d","e","f","g","h","i","j","k","l","m",
     "n","o","p","q","r","s","t","u","v","w","x","y","z"}

\* Every character a table entry holds.
CHARS == LOWER \cup {" ", "(", ")"}

SENTINEL == <<"(","b","i","g"," ","n","u","m","b","e","r",")">>

\* The words for 0 to 20, as the specification spells them.
ATOMS ==
    << <<"z","e","r","o">>, <<"o","n","e">>, <<"t","w","o">>,
       <<"t","h","r","e","e">>, <<"f","o","u","r">>, <<"f","i","v","e">>,
       <<"s","i","x">>, <<"s","e","v","e","n">>, <<"e","i","g","h","t">>,
       <<"n","i","n","e">>, <<"t","e","n">>, <<"e","l","e","v","e","n">>,
       <<"t","w","e","l","v","e">>, <<"t","h","i","r","t","e","e","n">>,
       <<"f","o","u","r","t","e","e","n">>, <<"f","i","f","t","e","e","n">>,
       <<"s","i","x","t","e","e","n">>, <<"s","e","v","e","n","t","e","e","n">>,
       <<"e","i","g","h","t","e","e","n">>, <<"n","i","n","e","t","e","e","n">>,
       <<"t","w","e","n","t","y">> >>

Returned == status = "done" /\ impl = "shortscale"

HasChar(str, c) == \E i \in 1..Len(str) : str[i] = c

\* C1: for every n in 0..=20 shortscale(n) returns exactly the one word of
\* the table for n: no space, no "and", no second word.
C1_AtomLookup ==
    (Returned /\ Le(num, Lit(20))) =>
        /\ s = ATOMS[num[1] + 1]
        /\ ~HasChar(s, " ")
        /\ s # AND

C1_Witness == Returned /\ num = Lit(11) /\ s = <<"e","l","e","v","e","n">>

\* C2: for every n above 999_999_999_999_999_999, up to u64::MAX,
\* shortscale(n) returns exactly "(big number)".
C2_Sentinel == (Returned /\ Gt(num, MAX_SUPPORTED)) => s = SENTINEL

C2_Witness == Returned /\ num = U64_MAX /\ s = SENTINEL

\* C3: shortscale is total over u64: every call, for every input, finishes
\* and returns a string; none ends in a panic (a division by zero, a failed
\* unwrap) or stops half way.
C3_Total ==
    <>(status = "done" /\ s \in Seq(CHARS \cup {prefix[i] : i \in 1..Len(prefix)}))

C3_Witness ==
    /\ status = "done"
    /\ impl = "display"
    /\ prefix = <<>>
    /\ num = U(0, 999, 999, 999, 999, 999, 999)
    /\ Len(s) > 0

\* The words of a String: the pieces between its spaces.  A leading, a
\* trailing or a doubled space yields an empty word.
FirstSpace(str, i) ==
    IF \E j \in i..Len(str) : str[j] = " "
    THEN CHOOSE j \in i..Len(str) :
            /\ str[j] = " "
            /\ \A j2 \in i..(j - 1) : str[j2] # " "
    ELSE Len(str) + 1

RECURSIVE WordsFrom(_, _)
WordsFrom(str, i) ==
    LET e == FirstSpace(str, i)
    IN  <<SubSeq(str, i, e - 1)>>
        \o (IF e > Len(str) THEN <<>> ELSE WordsFrom(str, e + 1))

Words(str) == WordsFrom(str, 1)

HUNDRED == <<"h","u","n","d","r","e","d">>

SCALE_WORDS ==
    << <<"t","h","o","u","s","a","n","d">>, <<"m","i","l","l","i","o","n">>,
       <<"b","i","l","l","i","o","n">>, <<"t","r","i","l","l","i","o","n">>,
       <<"q","u","a","d","r","i","l","l","i","o","n">> >>

IsScaleWord(w) == \E k \in 1..5 : w = SCALE_WORDS[k]

\* The numbers shortscale decomposes: 21 ..= 999_999_999_999_999_999.
Decomposed == Gt(num, Lit(20)) /\ Le(num, MAX_SUPPORTED)

\* The group value at scale 1000^k: (n / 1000^k) % 1000.
GroupOf(n, k) == n[k + 1]

\* The words of the scale group that ends with the scale word at position p:
\* those after the scale word before it.
SegmentStart(ws, p) ==
    IF \E q \in 1..(p - 1) : IsScaleWord(ws[q])
    THEN 1 + CHOOSE q \in 1..(p - 1) :
                 /\ IsScaleWord(ws[q])
                 /\ \A q2 \in (q + 1)..(p - 1) : ~IsScaleWord(ws[q2])
    ELSE 1

Segment(ws, p) == SubSeq(ws, SegmentStart(ws, p), p - 1)

\* The rule of "and" in a scale group of value g whose words are seg.
GroupAndRule(seg, g) ==
    LET h == g \div 100
        r == g % 100
        ands == {i \in 1..Len(seg) : seg[i] = AND}
    IN  /\ (ands # {}) <=> (h # 0 /\ r # 0)
        /\ \A i \in ands :
             /\ i = 3
             /\ seg[2] = HUNDRED
             /\ Len(seg) \in {4, 5}
             /\ \A j \in 4..Len(seg) : seg[j] \notin {AND, HUNDRED}

\* C4: in a scale group of value g in 1..=999 (thousand or above) "and" is
\* written, directly before the group's tens/units words, if and only if
\* g's hundreds digit is non-zero and g % 100 is non-zero; a higher group
\* written earlier never brings an "and" into a later scale group.
C4_GroupAnd ==
    (Returned /\ Decomposed) =>
        LET ws == Words(s)
        IN  \A k \in 1..5 :
              GroupOf(num, k) # 0 =>
                /\ \E p \in 1..Len(ws) : ws[p] = SCALE_WORDS[k]
                /\ \A p \in 1..Len(ws) :
                     ws[p] = SCALE_WORDS[k] =>
                        GroupAndRule(Segment(ws, p), GroupOf(num, k))

\* 1_430_020 -> "one million four hundred and thirty thousand and twenty"
C4_Witness ==
    /\ Returned
    /\ num = U(0, 0, 0, 0, 1, 430, 20)
    /\ s =
        <<"o","n","e"," ","m","i","l","l","i","o","n"," ","f","o","u",
          "r"," ","h","u","n","d","r","e","d"," ","a","n","d"," ","t",
          "h","i","r","t","y"," ","t","h","o","u","s","a","n","d"," ",
          "a","n","d"," ","t","w","e","n","t","y">>

\* The words after the last scale word: those of n % 1000.
FinalWords(ws) ==
    IF \E q \in 1..Len(ws) : IsScaleWord(ws[q])
    THEN SubSeq(ws, SegmentStart(ws, Len(ws) + 1), Len(ws))
    ELSE ws

\* C5: at the top level, for n in 21..=999_999_999_999_999_999, "and" is
\* written before the final tens/units words if and only if n % 100 is
\* non-zero and a word was written before them (n >= 100).
C5_TopAnd ==
    (Returned /\ Decomposed) =>
        LET fin == FinalWords(Words(s))
            h == num[1] \div 100
            r == num[1] % 100
            first == IF h # 0 THEN 3 ELSE 1
            ands == {i \in 1..Len(fin) : fin[i] = AND}
        IN  /\ (ands # {}) <=> (r # 0 /\ Gt(num, Lit(99)))
            /\ \A i \in ands :
                 /\ i = first
                 /\ Len(fin) \in {first + 1, first + 2}
                 /\ \A j \in (first + 1)..Len(fin) : fin[j] \notin {AND, HUNDRED}

\* 30_020 -> "thirty thousand and twenty"
C5_Witness ==
    /\ Returned
    /\ num = U(0, 0, 0, 0, 0, 30, 20)
    /\ s =
        <<"t","h","i","r","t","y"," ","t","h","o","u","s","a","n","d",
          " ","a","n","d"," ","t","w","e","n","t","y">>

CountOf(ws, w) == Cardinality({i \in 1..Len(ws) : ws[i] = w})

\* A call of push_scale for a group whose value is zero is running.
InZeroGroup ==
    /\ status = "run"
    /\ \E i \in 1..Len(stack) :
         /\ stack[i].fn = "push_scale"
         /\ num[ScaleExp(stack[i].thousands) + 1] = 0

\* C6: for every in-range n and each of the five scales the scale's word
\* occurs in shortscale(n) exactly once when (n / scale) % 1000 is non-zero
\* and not at all when it is zero; the call for a zero group writes nothing.
C6_ScaleWords ==
    /\ []((Returned /\ Le(num, MAX_SUPPORTED)) =>
            \A k \in 1..5 :
                CountOf(Words(s), SCALE_WORDS[k])
                    = (IF GroupOf(num, k) # 0 THEN 1 ELSE 0))
    /\ [][InZeroGroup => s' = s]_vars

\* 1_000_000 -> "one million": one scale word, the thousands write nothing
C6_Witness ==
    /\ Returned
    /\ num = U(0, 0, 0, 0, 1, 0, 0)
    /\ s = <<"o","n","e"," ","m","i","l","l","i","o","n">>

\* No leading, no trailing and no doubled space.
WellSpaced(str) ==
    \/ str = <<>>
    \/ /\ str[1] # " "
       /\ str[Len(str)] # " "
       /\ \A i \in 1..(Len(str) - 1) : ~(str[i] = " " /\ str[i + 1] = " ")

\* C7, as claimed: for n in 0..=999_999_999_999_999_999 the buffer of
\* shortscale has no leading, trailing or doubled space after every append
\* (every push_str) of its construction, and at the return.
C7_Original ==
    (impl = "shortscale" /\ Le(num, MAX_SUPPORTED)) => WellSpaced(s)

\* C7, amended: the same holds at the return and after every completed
\* push_word; between the two appends of one push_word (the separator of
\* line 71, the word of line 73) the buffer ends with a space.
C7_Spacing ==
    (impl = "shortscale" /\ Le(num, MAX_SUPPORTED)) =>
        /\ ~Running("push_word", 73) => WellSpaced(s)
        /\ Running("push_word", 73) =>
             (s = <<>> \/ WellSpaced(SubSeq(s, 1, Len(s) - 1)))

\* 22: "twenty" has been pushed, "two" is still to come
C7_Witness ==
    /\ impl = "shortscale"
    /\ num = Lit(22)
    /\ Running("push_word", 0)
    /\ s = <<"t","w","e","n","t","y">>

\* C8, as claimed: for every input of the full u64 domain the output of
\* shortscale holds only lowercase ASCII letters and the spaces between
\* words, and no punctuation.
C8_Original == Returned => s \in Seq(LOWER \cup {" "})

\* C8, amended: that holds for every n up to 999_999_999_999_999_999; for
\* every larger n the output is "(big number)", which starts and ends with
\* a parenthesis.
C8_Alphabet ==
    Returned =>
        IF Le(num, MAX_SUPPORTED)
        THEN s # <<>> /\ s \in Seq(LOWER \cup {" "})
        ELSE s = SENTINEL /\ s[1] = "(" /\ s[Len(s)] = ")"

\* 999_120 -> "nine hundred and ninety nine thousand one hundred and twenty"
C8_Witness ==
    /\ Returned
    /\ num = U(0, 0, 0, 0, 0, 999, 120)
    /\ s =
        <<"n","i","n","e"," ","h","u","n","d","r","e","d"," ","a","n",
          "d"," ","n","i","n","e","t","y"," ","n","i","n","e"," ","t",
          "h","o","u","s","a","n","d"," ","o","n","e"," ","h","u","n",
          "d","r","e","d"," ","a","n","d"," ","t","w","e","n","t",
          "y">>

\* The buffer-writing form of the crate root, which src/ does not hold: it
\* appends to the caller's buffer what shortscale returns.
shortscale_string_writer(buf, n) == push_str(buf, shortscale(n))

\* C9: writing NumWords::new(num) into a String that holds the text P leaves
\* P followed by exactly shortscale(num): P is unchanged, and P being
\* non-empty adds neither a separator space nor an "and".
C9_Append ==
    (status = "done" /\ impl = "display") =>
        /\ s = prefix \o shortscale(num)
        /\ s = shortscale_string_writer(prefix, num)
        /\ SubSeq(s, 1, Len(prefix)) = prefix

\* "Hello " then 2_004 -> "Hello two thousand and four"
C9_Witness ==
    /\ status = "done"
    /\ impl = "display"
    /\ prefix = HELLO
    /\ num = U(0, 0, 0, 0, 0, 2, 4)
    /\ s =
        <<"H","e","l","l","o"," ","t","w","o"," ","t","h","o","u","s",
          "a","n","d"," ","a","n","d"," ","f","o","u","r">>

\* C10: for every u64 input shortscale_vec_push, shortscale_vec_concat,
\* shortscale_string_join, shortscale_str_push, shortscale_display and
\* NumWords::to_string return the string shortscale returns.
C10_Variants ==
    /\ Returned =>
         /\ shortscale_vec_push(num) = s
         /\ shortscale_vec_concat(num) = s
         /\ shortscale_string_join(num) = s
         /\ shortscale_str_push(num) = s
    /\ (status = "done" /\ impl = "display" /\ prefix = <<>>) =>
         s = shortscale(num)

\* 420_000_999_015
C10_Witness ==
    /\ Returned
    /\ num = U(0, 0, 0, 420, 0, 999, 15)
    /\ shortscale_string_join(num) = s
    /\ s =
        <<"f","o","u","r"," ","h","u","n","d","r","e","d"," ","a","n",
          "d"," ","t","w","e","n","t","y"," ","b","i","l","l","i","o",
          "n"," ","n","i","n","e"," ","h","u","n","d","r","e","d"," ",
          "a","n","d"," ","n","i","n","e","t","y"," ","n","i","n","e",
          " ","t","h","o","u","s","a","n","d"," ","a","n","d"," ","f",
          "i","f","t","e","e","n">>

\* C11: the repository applies one word table and one sentinel: for every
\* u64 input shortscale of lib.rs returns the string shortscale of
\* shortscale.rs returns, and the two map functions return the same word.
C11_OneTable ==
    (status = "done" /\ impl = "lib") =>
        /\ s = shortscale(num)
        /\ lib_map(num) = map(num)

\* The strings the documentation and the tests give.
\* tests/test-shortscale.rs line 43
DOC_1002301 ==
    <<"o","n","e"," ","m","i","l","l","i","o","n"," ","t","w","o"," ",
      "t","h","o","u","s","a","n","d"," ","t","h","r","e","e"," ","h",
      "u","n","d","r","e","d"," ","a","n","d"," ","o","n","e">>

\* shortscale.rs lines 44-46, tests line 51
DOC_420000999015 ==
    <<"f","o","u","r"," ","h","u","n","d","r","e","d"," ","a","n","d",
      " ","t","w","e","n","t","y"," ","b","i","l","l","i","o","n"," ",
      "n","i","n","e"," ","h","u","n","d","r","e","d"," ","a","n","d",
      " ","n","i","n","e","t","y"," ","n","i","n","e"," ","t","h","o",
      "u","s","a","n","d"," ","a","n","d"," ","f","i","f","t","e","e",
      "n">>

\* tests lines 54-56
DOC_999999999999999999 ==
    <<"n","i","n","e"," ","h","u","n","d","r","e","d"," ","a","n","d",
      " ","n","i","n","e","t","y"," ","n","i","n","e"," ","q","u","a",
      "d","r","i","l","l","i","o","n"," ","n","i","n","e"," ","h","u",
      "n","d","r","e","d"," ","a","n","d"," ","n","i","n","e","t","y",
      " ","n","i","n","e"," ","t","r","i","l","l","i","o","n"," ","n",
      "i","n","e"," ","h","u","n","d","r","e","d"," ","a","n","d"," ",
      "n","i","n","e","t","y"," ","n","i","n","e"," ","b","i","l","l",
      "i","o","n"," ","n","i","n","e"," ","h","u","n","d","r","e","d",
      " ","a","n","d"," ","n","i","n","e","t","y"," ","n","i","n","e",
      " ","m","i","l","l","i","o","n"," ","n","i","n","e"," ","h","u",
      "n","d","r","e","d"," ","a","n","d"," ","n","i","n","e","t","y",
      " ","n","i","n","e"," ","t","h","o","u","s","a","n","d"," ","n",
      "i","n","e"," ","h","u","n","d","r","e","d"," ","a","n","d"," ",
      "n","i","n","e","t","y"," ","n","i","n","e">>

\* tests lines 52-53
DOC_9007199254740999 ==
    <<"n","i","n","e"," ","q","u","a","d","r","i","l","l","i","o","n",
      " ","s","e","v","e","n"," ","t","r","i","l","l","i","o","n"," ",
      "o","n","e"," ","h","u","n","d","r","e","d"," ","a","n","d"," ",
      "n","i","n","e","t","y"," ","n","i","n","e"," ","b","i","l","l",
      "i","o","n"," ","t","w","o"," ","h","u","n","d","r","e","d"," ",
      "a","n","d"," ","f","i","f","t","y"," ","f","o","u","r"," ","m",
      "i","l","l","i","o","n"," ","s","e","v","e","n"," ","h","u","n",
      "d","r","e","d"," ","a","n","d"," ","f","o","u","r","t","y"," ",
      "t","h","o","u","s","a","n","d"," ","n","i","n","e"," ","h","u",
      "n","d","r","e","d"," ","a","n","d"," ","n","i","n","e","t","y",
      " ","n","i","n","e">>

\* C12: shortscale returns exactly the documented strings for 0, 1_002_301,
\* 420_000_999_015, 999_999_999_999_999_999 and 9_007_199_254_740_999 (the
\* last with the tens word of 40 spelled "fourty").
C12_Literals ==
    /\ Returned =>
        /\ (num = Lit(0)) => s = <<"z","e","r","o">>
        /\ (num = U(0, 0, 0, 0, 1, 2, 301)) => s = DOC_1002301
        /\ (num = U(0, 0, 0, 420, 0, 999, 15)) => s = DOC_420000999015
        /\ (num = U(0, 999, 999, 999, 999, 999, 999)) => s = DOC_999999999999999999
        /\ (num = U(0, 9, 7, 199, 254, 740, 999)) => s = DOC_9007199254740999
    \* the doc example of lib.rs, lines 8-12
    /\ (status = "done" /\ impl = "lib" /\ num = U(0, 0, 0, 420, 0, 999, 15)) =>
        s = DOC_420000999015

C12_Witness ==
    /\ Returned
    /\ num = U(0, 9, 7, 199, 254, 740, 999)
    /\ s = DOC_9007199254740999
    /\ \E i \in 1..Len(Words(s)) : Words(s)[i] = <<"f","o","u","r","t","y">>

\* The words for 20, 30, ..., 90, as map of shortscale.rs spells them.
TENS ==
    << <<"t","e","n">>, <<"t","w","e","n","t","y">>, <<"t","h","i","r","t","y">>,
       <<"f","o","u","r","t","y">>, <<"f","i","f","t","y">>,
       <<"s","i","x","t","y">>, <<"s","e","v","e","n","t","y">>,
       <<"e","i","g","h","t","y">>, <<"n","i","n","e","t","y">> >>

\* The words of r = num % 100.
TensUnitsWords(r) ==
    IF r = 0 THEN <<>>
    ELSE IF r <= 20 THEN <<ATOMS[r + 1]>>
    ELSE <<TENS[r \div 10]>> \o (IF r % 10 = 0 THEN <<>> ELSE <<ATOMS[(r % 10) + 1]>>)

\* The words of the hundreds digit of g.
HundredsWords(g) ==
    IF (g \div 100) % 10 = 0 THEN <<>> ELSE <<ATOMS[((g \div 100) % 10) + 1], HUNDRED>>

\* The words of a group of value g, with "and" when and_word says so.
GroupWords(g, and_word) ==
    HundredsWords(g)
        \o (IF and_word /\ g % 100 # 0 THEN <<AND>> ELSE <<>>)
        \o TensUnitsWords(g % 100)

\* C13: for every in-range n the scale words of shortscale(n) stand in
\* strictly descending order of magnitude, each directly after the words of
\* its own group, and the words of n % 1000 come after every scale word.
C13_Descending ==
    (Returned /\ Decomposed) =>
        LET ws == Words(s)
            scales == {p \in 1..Len(ws) : IsScaleWord(ws[p])}
            exp(p) == CHOOSE k \in 1..5 : ws[p] = SCALE_WORDS[k]
        IN  /\ \A p, q \in scales : p < q => exp(p) > exp(q)
            /\ \A p \in scales :
                 LET g == GroupOf(num, exp(p))
                 IN  /\ g # 0
                     /\ Segment(ws, p) = GroupWords(g, g >= 100)
            /\ FinalWords(ws) = GroupWords(num[1], Gt(num, Lit(99)))
            /\ \A p \in scales : p <= Len(ws) - Len(FinalWords(ws))

\* 9_007_199_254_740_999: all five scale words and a final group
C13_Witness ==
    /\ Returned
    /\ num = U(0, 9, 7, 199, 254, 740, 999)
    /\ LET ws == Words(s)
       IN  /\ ws[2] = SCALE_WORDS[5]
           /\ ws[4] = SCALE_WORDS[4]
           /\ ws[Len(ws) - 5] = SCALE_WORDS[1]
           /\ CountOf(ws, SCALE_WORDS[3]) = 1
           /\ CountOf(ws, SCALE_WORDS[2]) = 1

\* The words the buffer holds (none when it is empty).
BufferWords == IF s = <<>> THEN <<>> ELSE Words(s)

\* The last k words of ws, and the word before them (<<>> when there is none).
LastWords(ws, k) == SubSeq(ws, Len(ws) - k + 1, Len(ws))
WordBefore(ws, k) == IF Len(ws) > k THEN ws[Len(ws) - k] ELSE <<>>

\* A call of push_tens_and_units for r = num % 100 = 0, or of push_hundreds
\* for a hundreds digit of 0, starts.
EmitsNothing ==
    \/ Running("push_tens_and_units", 77) /\ Top.num[1] % 100 = 0
    \/ Running("push_hundreds", 98) /\ (Top.num[1] \div 100) % 10 = 0

\* C14: for r = num % 100: r = 0 emits no word; r in 1..=20 emits exactly
\* the one table word for r; r in 21..=99 emits the tens word for
\* (r / 10) * 10, followed by the units word for r % 10 if and only if
\* r % 10 is non-zero.  The hundreds part emits the digit word followed by
\* "hundred" if and only if (num / 100) % 10 is non-zero.
C14_TensUnitsHundreds ==
    /\ []((Running("push_tens_and_units", 0) /\ impl = "shortscale") =>
            LET r == Top.num[1]
                t == TensUnitsWords(r)
                b == WordBefore(BufferWords, Len(t))
            IN  /\ r \in 0..99
                /\ Len(BufferWords) >= Len(t)
                /\ LastWords(BufferWords, Len(t)) = t
                /\ IF r # 0 /\ Top.and_word THEN b = AND
                   ELSE IF r # 0 THEN b = <<>> \/ IsScaleWord(b)
                   ELSE b = <<>> \/ b = HUNDRED \/ IsScaleWord(b))
    /\ []((Running("push_hundreds", 0) /\ impl = "shortscale") =>
            LET d == Top.num[1]
                h == IF d = 0 THEN <<>> ELSE <<ATOMS[d + 1], HUNDRED>>
                b == WordBefore(BufferWords, Len(h))
            IN  /\ d \in 0..9
                /\ Len(BufferWords) >= Len(h)
                /\ LastWords(BufferWords, Len(h)) = h
                /\ b = <<>> \/ IsScaleWord(b))
    /\ [](/\ tens_and_units_words(num) = join(TensUnitsWords(num[1] % 100), SPACE)
          /\ hundreds_words(num) = join(HundredsWords(num[1]), SPACE))
    /\ [][EmitsNothing => (s' = s /\ stack'[Len(stack)].pc = 0)]_vars

\* 1_999: the final call has emitted "ninety nine" after "and"
C14_Witness ==
    /\ impl = "shortscale"
    /\ num = U(0, 0, 0, 0, 0, 1, 999)
    /\ Running("push_tens_and_units", 0)
    /\ Len(stack) = 2
    /\ Top.num = Lit(99)
    /\ LastWords(BufferWords, 3) =
         <<AND, <<"n","i","n","e","t","y">>, <<"n","i","n","e">>>>

\* C15: for every n in 0..=999_999_999_999_999_999 every table lookup made
\* while formatting n hits an explicit entry of map: no word handed to
\* push_word and no returned string is the fallback text, and no "(" or ")"
\* is ever in the buffer.
C15_NoFallback ==
    (impl = "shortscale" /\ Le(num, MAX_SUPPORTED)) =>
        /\ \A i \in 1..Len(stack) :
             stack[i].fn = "push_word" =>
                /\ stack[i].word # map(U64_MAX)
                /\ stack[i].word \in Seq(LOWER)
        /\ s # map(U64_MAX)
        /\ ~HasChar(s, "(")
        /\ ~HasChar(s, ")")

\* 90: the word looked up for num / 10 * 10 is about to be pushed
C15_Witness ==
    /\ impl = "shortscale"
    /\ num = Lit(90)
    /\ Running("push_word", 70)
    /\ Top.word = <<"n","i","n","e","t","y">>

\* C16: for every in-range n and each of the five scales the group value
\* jillions of lib.rs computes as n % (scale * 1000) / scale equals
\* (n / scale) % 1000 and lies in 0..=999; hundreds of lib.rs
\* (n % 1000 / 100) equals (n / 100) % 10; and no intermediate value,
\* scale * 1000 for scale = 10^15 included, overflows a u64.
C16_LibArithmetic ==
    impl = "lib" =>
        /\ status \in {"run", "done"}
        /\ Running("jillions", 65) =>
             /\ ~MulOverflows(Top["scale"], 1000)
             /\ IsU64(MulSmall(Top["scale"], 1000))
             /\ Top["scale"] \in {Pow1000(k) : k \in 1..5}
        /\ Running("jillions", 66) =>
             /\ Top.num = ModSmall(DivScale(num, Top["scale"]), 1000)
             /\ Top.num[1] \in 0..999
             /\ \A i \in 2..7 : Top.num[i] = 0
        /\ lib_hundreds_digit(num) = ModSmall(DivSmall(num, 100), 10)
        /\ lib_hundreds_digit(num)[1] \in 0..9

\* 999_999_999_999_999_999: the quadrillions, computed with scale * 1000 = 10^18
C16_Witness ==
    /\ impl = "lib"
    /\ num = U(0, 999, 999, 999, 999, 999, 999)
    /\ Running("jillions", 66)
    /\ Top["scale"] = Pow1000(5)
    /\ MulSmall(Top["scale"], 1000) = Pow1000(6)
    /\ Top.num = Lit(999)

\* The number a word of 0..20 or of a multiple of ten stands for (-1: none).
ValueOf(w) ==
    IF \E i \in 1..21 : ATOMS[i] = w
    THEN (CHOOSE i \in 1..21 : ATOMS[i] = w) - 1
    ELSE IF \E j \in 2..9 : TENS[j] = w
    THEN 10 * (CHOOSE j \in 2..9 : TENS[j] = w)
    ELSE -1

\* The value the words of one group spell, read from word i on: a word
\* before "hundred" counts hundreds, "and" and "hundred" count nothing.
RECURSIVE SegValue(_, _)
SegValue(seg, i) ==
    IF i > Len(seg) THEN 0
    ELSE (IF seg[i] \in {AND, HUNDRED} THEN 0
          ELSE IF i < Len(seg) /\ seg[i + 1] = HUNDRED THEN 100 * ValueOf(seg[i])
          ELSE ValueOf(seg[i]))
         + SegValue(seg, i + 1)

\* The number a word sequence spells, read without knowing the input.
Decode(ws) ==
    [i \in Limbs |->
        IF i = 1 THEN SegValue(FinalWords(ws), 1)
        ELSE IF i <= 6 /\ \E p \in 1..Len(ws) : ws[p] = SCALE_WORDS[i - 1]
        THEN SegValue(Segment(ws, CHOOSE p \in 1..Len(ws) : ws[p] = SCALE_WORDS[i - 1]), 1)
        ELSE 0]

\* C17: shortscale is injective on 0..=999_999_999_999_999_999: the words
\* of the output determine the number (reading them back yields the input),
\* so two different numbers never give the same string, and no in-range
\* output is the sentinel.
C17_Injective ==
    (Returned /\ Le(num, MAX_SUPPORTED)) =>
        /\ Decode(Words(s)) = num
        /\ s # SENTINEL

\* 1_000_001 -> "one million and one", read back as 1_000_001
C17_Witness ==
    /\ Returned
    /\ num = U(0, 0, 0, 0, 1, 0, 1)
    /\ Words(s) = << <<"o","n","e">>, <<"m","i","l","l","i","o","n">>, AND, <<"o","n","e">> >>
    /\ Decode(Words(s)) = num

\* shortscale.rs line 55: String::with_capacity(238)
STRING_CAPACITY == 238

\* shortscale.rs line 171: Vec::with_capacity(35)
VEC_CAPACITY == 35

\* C18: for every u64 input the pre-sized buffers are never outgrown: the
\* String shortscale builds holds at most 238 bytes at every step and at
\* the end, and the word list of shortscale_vec_push, which only grows, ends
\* with at most 35 words.  (One group takes at most 31 bytes.)
C18_Capacity ==
    /\ impl = "shortscale" =>
         /\ StrLen(s) <= STRING_CAPACITY
         /\ (Returned /\ Le(num, Lit(999))) => StrLen(s) <= 31
    /\ ~is_simple_lookup(num) => Len(vec_push_words(num)) <= VEC_CAPACITY

\* 777_777_777_777_777_777: 237 bytes, 35 words
C18_Witness ==
    /\ Returned
    /\ num = U(0, 777, 777, 777, 777, 777, 777)
    /\ StrLen(s) = STRING_CAPACITY - 1
    /\ Len(vec_push_words(num)) = VEC_CAPACITY

\* The rules of "and" in a word sequence.
AndRules(ws) ==
    /\ ws[1] # AND
    /\ ws[Len(ws)] # AND
    /\ \A i \in 1..Len(ws) :
         ws[i] = AND =>
            /\ i < Len(ws)
            /\ ws[i + 1] \notin {AND, HUNDRED}
            /\ ~IsScaleWord(ws[i + 1])
    /\ \A p \in 1..Len(ws) :
         IsScaleWord(ws[p]) => CountOf(Segment(ws, p), AND) <= 1
    /\ CountOf(FinalWords(ws), AND) <= 1
    /\ CountOf(ws, AND) <= 6

\* C19: in every output of shortscale for an in-range n the word "and" is
\* never the first and never the last word, is never followed by "hundred",
\* a scale word or another "and", and occurs at most once per group (at
\* most six times in all); the list concat_and builds obeys the same rules.
C19_AndPlacement ==
    (Returned /\ Le(num, MAX_SUPPORTED)) =>
        /\ AndRules(Words(s))
        /\ AndRules(Words(shortscale_vec_concat(num)))

\* 999_999_999_999_999_999: six groups, six "and"
C19_Witness ==
    /\ Returned
    /\ num = U(0, 999, 999, 999, 999, 999, 999)
    /\ CountOf(Words(s), AND) = 6
    /\ CountOf(Words(shortscale_vec_concat(num)), AND) = 6

\* What this formatting call has written: the buffer after the prefix.
Written == SubSeq(s, Len(prefix) + 1, Len(s))

\* C20: in NumWords::display, after any sequence of write_word calls of one
\* formatting call, len equals the number of bytes the call has written to
\* the formatter (words and separators, not what the buffer held before);
\* write_word writes a separator exactly when the call has already written
\* a word; and the test len > 0 of line 101 is true exactly when a scale
\* group or the hundreds word was written.
C20_LenCounter ==
    /\ []((impl = "display" /\ Decomposed) =>
            /\ SubSeq(s, 1, Len(prefix)) = prefix
            /\ len = StrLen(Written))
    /\ []((impl = "display" /\ Running("tens_and_units", 106) /\ Len(stack) = 2) =>
            /\ Top.and_word <=> (Written # <<>>)
            /\ Top.and_word <=>
                 (num[1] \div 100 # 0 \/ \E k \in 1..5 : GroupOf(num, k) # 0))
    /\ [][Running("write_word", 150) =>
            s' = (IF Written # <<>> THEN s \o <<" ">> ELSE s)]_vars

\* "Hello " + 30_020: "thirty thousand" written, 15 bytes counted, "and" due
C20_Witness ==
    /\ impl = "display"
    /\ prefix = HELLO
    /\ num = U(0, 0, 0, 0, 0, 30, 20)
    /\ Running("tens_and_units", 106)
    /\ Len(stack) = 2
    /\ Top.and_word
    /\ len = 15
    /\ Written = <<"t","h","i","r","t","y"," ","t","h","o","u","s","a","n","d">>

====
